---- MODULE Spec2Model ----
(***************************************************************************)
(* Model of src/addon.js: the catalog handler of the Stremio add-on, its   *)
(* page-size learner, the external-id resolver (getIMDBId), the            *)
(* audio-language classifier (hasHindiAudio) and the node-cache instance   *)
(* they share.                                                             *)
(*                                                                         *)
(* One catalog request runs at a time as a small state machine: it         *)
(* suspends at every `await` of the source (the upstream list query, the   *)
(* Promise.all over hasHindiAudio, the Promise.all over formatMovie /      *)
(* formatSeries).  The individual axios calls of a Promise.all batch are   *)
(* in flight independently and complete in any order; time may pass and    *)
(* the cache's periodic sweep may run between any two steps.               *)
(***************************************************************************)
EXTENDS Integers, Sequences, FiniteSets, TLC

(***************************************************************************)
(* Program constants                                                       *)
(***************************************************************************)
stdTTL == 1800
ShortTTL == 3600
LongTTL == 86400
DefaultPageSize == 20
Floor == 25
PageLen == 20

(***************************************************************************)
(* Bounds of the model                                                     *)
(***************************************************************************)
\* cache capacity (maxKeys: 1000 at src/addon.js:8, scaled down so that a
\* full cache is reached with the few keys of the model)
MaxKeys == 3
\* length of the short lists the upstream returns
MaxLen == 2
\* number of times the clock is advanced
MaxTicks == 1
\* length of the lists a regional-language query returns
MaxRegional == 1
\* largest client offset tried
MaxSkip == 2
\* length of the poster-less padding the primary query may carry in front of
\* a short list, so that the accumulator gets near the floor of 25
PadLen == 23
MaxOffset == 4

NULL == "null"
\* error.message of what the handler's catch block gets
ECACHEFULL == "Cache max keys amount exceeded"
UpstreamError == "Request failed"
NoDate == <<0>>

Types == {"movie", "series"}
CatalogIds == {"hollywood_latest", "indian_latest", "hollywood_series_latest"}
Searches == {"", "q"}
Skips == 0..MaxSkip

regionalLangs == <<"ta", "te", "ml", "kn", "mr">>
indianLangs == {"hi", "ta", "te", "ml", "kn", "mr", "bn", "pa"}

(***************************************************************************)
(* Raw upstream records: source id, poster reference (present or not),     *)
(* original language, release date.  A date is the tuple <<y, m, d>> of a  *)
(* well-formed "YYYY-MM-DD" string, <<>> is the empty string and NoDate is *)
(* an absent field.                                                        *)
(***************************************************************************)
Item(i, p, l, d) == [id |-> i, poster_path |-> p, original_language |-> l, release_date |-> d]

RawItems ==
    { Item(1, TRUE, "en", <<2024, 5, 1>>),
      Item(2, TRUE, "ta", <<>>),
      Item(2, FALSE, "hi", NoDate) }

\* what the regional-language queries of the composite catalog find
RegionalItems == {Item(2, TRUE, "ta", <<>>)}

PadItem == Item(3, FALSE, "hi", <<2023, 1, 1>>)

ItemIds == {1, 2, 3}

RECURSIVE SeqsUpTo(_, _)
SeqsUpTo(S, n) ==
    IF n = 0 THEN {<<>>}
    ELSE LET shorter == SeqsUpTo(S, n - 1)
         IN  shorter \cup {Append(s, x) : s \in {q \in shorter : Len(q) = n - 1}, x \in S}

ShortLists == SeqsUpTo(RawItems, MaxLen)

RegionalLists == SeqsUpTo(RegionalItems, MaxRegional)

Pad(n) == [i \in 1..n |-> PadItem]

\* a padding of items that each have a source id of their own
PadOwn(n) == [i \in 1..n |-> [PadItem EXCEPT !.id = 2 + i]]

\* what a list query may answer: a short list, for the primary query of the
\* composite catalog possibly behind a padding
PrimaryLists == ShortLists \cup {Pad(PadLen) \o s : s \in ShortLists}

\* lists of more than 20 different items
WideLists == {PadOwn(PadLen) \o s : s \in ShortLists}

TT(n) == CASE n = 1 -> "tt1" [] n = 2 -> "tt2" [] OTHER -> "tt3"

(***************************************************************************)
(* node-cache                                                              *)
(***************************************************************************)
Key(kind, a, b, n) == [kind |-> kind, a |-> a, b |-> b, n |-> n]

\* `ps_${id}` / `ps_${id}_s_${search}`
pageSizeKey(id, search) == Key("ps", id, search, 0)
\* `${id}_p${page}` / `${id}_s_${search}_p${page}`
pageKey(id, search, page) == Key("page", id, search, page)
\* `imdb_${type}_${tmdbId}`
imdbKey(type, tmdbId) == Key("imdb", type, "", tmdbId)
\* `hindi_${movieId}`
hindiKey(movieId) == Key("hindi", "", "", movieId)

Expired(e, now) == e.t # 0 /\ e.t < now

\* a variant that tests the value read for truthiness: a stored null or false counts as absent
HitTruthy(c, k, now) ==
    /\ k \in DOMAIN c /\ ~Expired(c[k], now)
    /\ k.kind = "imdb" => c[k].v # NULL
    /\ k.kind = "hindi" => c[k].v

\* a variant of get(key) that never finds anything
HitNever(c, k, now) == FALSE

\* get(key) finds a live entry
Hit(c, k, now) == k \in DOMAIN c /\ ~Expired(c[k], now)

\* the cache after get(key): an expired entry is deleted on the read
AfterGet(c, k, now) ==
    IF k \in DOMAIN c /\ Expired(c[k], now)
    THEN [x \in DOMAIN c \ {k} |-> c[x]]
    ELSE c

\* the cache after a set(key, value, ttl) that did not throw
AfterSet(c, k, v, ttl, now) ==
    [x \in DOMAIN c \cup {k} |-> IF x = k THEN [v |-> v, t |-> now + ttl] ELSE c[x]]

(***************************************************************************)
(* Offset-to-page translation                                              *)
(***************************************************************************)
\* cache.get(pageSizeKey) || 20
pageSizeOf(c, id, search, now) ==
    IF Hit(c, pageSizeKey(id, search), now) /\ c[pageSizeKey(id, search)].v # 0
    THEN c[pageSizeKey(id, search)].v
    ELSE DefaultPageSize

\* variants of the translation a slip would produce: rounding up, and the remainder
\* in place of the quotient
upstreamPageCeil(skip, pageSize) == (skip + pageSize - 1) \div pageSize
upstreamPageMod(skip, pageSize) == (skip % pageSize) + 1

\* Math.floor(skip / pageSize) + 1
upstreamPage(skip, pageSize) == (skip \div pageSize) + 1

(***************************************************************************)
(* Composite path: deduplication and ordering                              *)
(***************************************************************************)
\* filter((_, idx) => keep[idx])
RECURSIVE FilterSeq(_, _, _)
FilterSeq(s, keep, i) ==
    IF i > Len(s) THEN <<>>
    ELSE (IF keep[i] THEN <<s[i]>> ELSE <<>>) \o FilterSeq(s, keep, i + 1)

\* seenIds / uniqueMovies loop
RECURSIVE DedupFrom(_, _, _, _)
DedupFrom(allMovies, i, seenIds, uniqueMovies) ==
    IF i > Len(allMovies) THEN uniqueMovies
    ELSE IF allMovies[i].id \in seenIds
         THEN DedupFrom(allMovies, i + 1, seenIds, uniqueMovies)
         ELSE DedupFrom(allMovies, i + 1, seenIds \cup {allMovies[i].id},
                        Append(uniqueMovies, allMovies[i]))

\* a variant that compares whole records instead of ids
DedupByRecord(allMovies) ==
    FilterSeq(allMovies,
              [i \in 1..Len(allMovies) |-> \A j \in 1..(i - 1) : allMovies[j] # allMovies[i]], 1)

Dedup(allMovies) == DedupFrom(allMovies, 1, {}, <<>>)

\* release_date || ''
DateOrEmpty(d) == IF d = NoDate THEN <<>> ELSE d

\* x.localeCompare(y) on date strings: -1, 0 or 1
RECURSIVE localeCompare(_, _)
localeCompare(x, y) ==
    IF x = <<>> THEN (IF y = <<>> THEN 0 ELSE -1)
    ELSE IF y = <<>> THEN 1
    ELSE IF Head(x) < Head(y) THEN -1
    ELSE IF Head(x) > Head(y) THEN 1
    ELSE localeCompare(Tail(x), Tail(y))

\* the comparator with its operands the other way round
byReleaseAsc(a, b) == localeCompare(DateOrEmpty(a.release_date), DateOrEmpty(b.release_date))

\* the comparator of the sort: (b.release_date || '').localeCompare(a.release_date || '')
byReleaseDesc(a, b) == localeCompare(DateOrEmpty(b.release_date), DateOrEmpty(a.release_date))

\* Array.prototype.sort is stable: x goes behind every element it does not
\* strictly precede
RECURSIVE InsertSorted(_, _)
InsertSorted(s, x) ==
    IF s = <<>> THEN <<x>>
    ELSE IF byReleaseDesc(Head(s), x) > 0 THEN <<x>> \o s
    ELSE <<Head(s)>> \o InsertSorted(Tail(s), x)

RECURSIVE SortFrom(_, _, _)
SortFrom(s, i, out) ==
    IF i > Len(s) THEN out ELSE SortFrom(s, i + 1, InsertSorted(out, s[i]))

sortByRelease(s) == SortFrom(s, 1, <<>>)

\* slice(0, n)
Slice(s, n) == IF Len(s) <= n THEN s ELSE SubSeq(s, 1, n)

(***************************************************************************)
(* Formatting                                                              *)
(***************************************************************************)
\* formatReleaseDate / releaseInfo: DD-MM-YYYY, nothing for an empty or absent date
releaseInfo(d) == IF DateOrEmpty(d) = <<>> THEN NoDate ELSE <<d[3], d[2], d[1]>>

\* the object formatMovie / formatSeries return for a resolved identifier
Meta(imdbId, type, m) ==
    [id |-> imdbId, type |-> type, poster |-> m.poster_path,
     language |-> m.original_language, releaseInfo |-> releaseInfo(m.release_date)]

\* the results of a Promise.all batch: one slot per item
Pending == [st |-> "pending", v |-> <<>>]
Resolved(v) == [st |-> "ok", v |-> v]

\* a variant without the `if (!imdbId) return null` guard
FormattedUnguarded(imdbId, type, m) == <<Meta(imdbId, type, m)>>

\* formatMovie / formatSeries after getIMDBId has answered: null without an identifier
Formatted(imdbId, type, m) == IF imdbId = NULL THEN <<>> ELSE <<Meta(imdbId, type, m)>>

\* a variant that asks for all three signals
QualifiesAll(d) == d.hi /\ d.trans /\ d.inRelease

\* hasHindiAudio: the three signals of a fetched detail record
Qualifies(d) == d.hi \/ d.trans \/ d.inRelease

(***************************************************************************)
(* State                                                                   *)
(***************************************************************************)
VARIABLES
    cache,      \* node-cache: key -> [v: value, t: expiry time]
    now,        \* the clock, in seconds
    ticks,      \* how often the clock has been advanced
    h,          \* the catalog request being handled (or the last one handled); issued and
                \* calls log the list queries and the lookups it has sent upstream
    lookups,    \* axios calls of getIMDBId / hasHindiAudio in flight
    scope       \* the kinds, catalog and search term the clients of this run ask for,
                \* and the maxKeys the cache was constructed with

vars == <<cache, now, ticks, h, lookups, scope>>

\* the cache holds maxKeys entries: set(key, ...) throws ECACHEFULL, also for a key
\* that is already stored
Full(c) == Cardinality(DOMAIN c) >= scope.maxKeys

Idle ==
    [pc |-> "idle", type |-> "movie", id |-> "hollywood_latest", search |-> "", skip |-> 0,
     pageSize |-> DefaultPageSize, page |-> 1, lang |-> 0,
     allMovies |-> <<>>, batch |-> <<>>, results |-> <<>>,
     issued |-> <<>>, metas |-> <<>>, fromCache |-> FALSE, error |-> "",
     learned |-> FALSE, calls |-> 0]

\* one step of the handler: its record, the cache and the axios calls it started
Step(hh, c, lk) == [h |-> hh, c |-> c, lk |-> lk]

\* the axios.get of a list query: endpoint, with_original_language and page
Query(ep, lang, page) == [ep |-> ep, lang |-> lang, page |-> page]

(***************************************************************************)
(* The end of the handler                                                  *)
(***************************************************************************)
\* a variant of the catch block that returns what had been accumulated
CaughtPartial(hh, error, c) ==
    Step([hh EXCEPT !.pc = "done", !.error = error, !.results = <<>>,
                    !.metas = [i \in 1..Len(hh.allMovies) |->
                                  Meta(TT(hh.allMovies[i].id), hh.type, hh.allMovies[i])]], c, {})

\* a variant without the catch block: the handler's promise rejects
CaughtRethrown(hh, error, c) ==
    Step([hh EXCEPT !.pc = "rejected", !.error = error, !.results = <<>>], c, {})

\* catch (error): return { metas: [] }; error.message is logged
Caught(hh, error, c) ==
    Step([hh EXCEPT !.pc = "done", !.metas = <<>>, !.error = error, !.results = <<>>], c, {})

\* a variant that leaves a page-size record alone while it is live
FinishOnce(hh, metas, c) ==
    LET done == [hh EXCEPT !.pc = "done", !.metas = metas, !.results = <<>>]
        c1 == AfterSet(c, pageKey(hh.id, hh.search, hh.page), metas, stdTTL, now)
        c2 == AfterSet(c1, pageSizeKey(hh.id, hh.search), Len(metas), LongTTL, now)
    IN  IF Len(metas) = 0 THEN Step(done, c, {})
        ELSE IF Full(c) THEN Caught(hh, ECACHEFULL, c)
        ELSE IF hh.skip # 0 \/ Hit(c1, pageSizeKey(hh.id, hh.search), now) THEN Step(done, c1, {})
        ELSE IF Full(c1) THEN Caught(hh, ECACHEFULL, c1)
        ELSE Step([done EXCEPT !.learned = TRUE], c2, {})

\* a variant that learns the page size at every offset
FinishAnyOffset(hh, metas, c) ==
    LET done == [hh EXCEPT !.pc = "done", !.metas = metas, !.results = <<>>]
        c1 == AfterSet(c, pageKey(hh.id, hh.search, hh.page), metas, stdTTL, now)
        c2 == AfterSet(c1, pageSizeKey(hh.id, hh.search), Len(metas), LongTTL, now)
    IN  IF Len(metas) = 0 THEN Step(done, c, {})
        ELSE IF Full(c) THEN Caught(hh, ECACHEFULL, c)
        ELSE IF Full(c1) THEN Caught(hh, ECACHEFULL, c1)
        ELSE Step([done EXCEPT !.learned = TRUE], c2, {})

\* a variant that derives the page of the cache key anew when the list is stored
FinishRepaged(hh, metas, c) ==
    LET done == [hh EXCEPT !.pc = "done", !.metas = metas, !.results = <<>>]
        page == upstreamPage(hh.skip, pageSizeOf(c, hh.id, hh.search, now))
        c1 == AfterSet(c, pageKey(hh.id, hh.search, page), metas, stdTTL, now)
        c2 == AfterSet(c1, pageSizeKey(hh.id, hh.search), Len(metas), LongTTL, now)
    IN  IF Len(metas) = 0 THEN Step(done, c, {})
        ELSE IF Full(c) THEN Caught(hh, ECACHEFULL, c)
        ELSE IF hh.skip # 0 THEN Step(done, c1, {})
        ELSE IF Full(c1) THEN Caught(hh, ECACHEFULL, c1)
        ELSE Step([done EXCEPT !.learned = TRUE], c2, {})

\* a variant that learns the size of an empty first page too
FinishLearnEmpty(hh, metas, c) ==
    LET done == [hh EXCEPT !.pc = "done", !.metas = metas, !.results = <<>>]
        c1 == AfterSet(c, pageKey(hh.id, hh.search, hh.page), metas, stdTTL, now)
        c2 == AfterSet(c1, pageSizeKey(hh.id, hh.search), Len(metas), LongTTL, now)
        c3 == AfterSet(c, pageSizeKey(hh.id, hh.search), 0, LongTTL, now)
    IN  IF Len(metas) = 0
        THEN (IF hh.skip # 0 \/ Full(c) THEN Step(done, c, {}) ELSE Step(done, c3, {}))
        ELSE IF Full(c) THEN Caught(hh, ECACHEFULL, c)
        ELSE IF hh.skip # 0 THEN Step(done, c1, {})
        ELSE IF Full(c1) THEN Caught(hh, ECACHEFULL, c1)
        ELSE Step([done EXCEPT !.learned = TRUE], c2, {})

\* if (metas.length > 0) { cache.set(cacheKey, metas); if (skip === 0) cache.set(pageSizeKey, ...) }
\* return { metas }
Finish(hh, metas, c) ==
    LET done == [hh EXCEPT !.pc = "done", !.metas = metas, !.results = <<>>]
        c1 == AfterSet(c, pageKey(hh.id, hh.search, hh.page), metas, stdTTL, now)
        c2 == AfterSet(c1, pageSizeKey(hh.id, hh.search), Len(metas), LongTTL, now)
    IN  IF Len(metas) = 0 THEN Step(done, c, {})
        ELSE IF Full(c) THEN Caught(hh, ECACHEFULL, c)
        ELSE IF hh.skip # 0 THEN Step(done, c1, {})
        ELSE IF Full(c1) THEN Caught(hh, ECACHEFULL, c1)
        ELSE Step([done EXCEPT !.learned = TRUE], c2, {})

(***************************************************************************)
(* Promise.all(items.map(m => formatMovie(m))): the synchronous part of    *)
(* every call runs at once, up to its first await                          *)
(***************************************************************************)
RECURSIVE FormatFrom(_, _, _, _)
FormatFrom(items, type, i, acc) ==
    IF i > Len(items) THEN acc
    ELSE LET m == items[i]
             k == imdbKey(type, m.id)
         IN  IF ~m.poster_path \/ m.id = 0
             THEN FormatFrom(items, type, i + 1,
                      [acc EXCEPT !.results = Append(@, Resolved(<<>>))])
             ELSE IF Hit(acc.c, k, now)
             THEN FormatFrom(items, type, i + 1,
                      [acc EXCEPT !.results = Append(@, Resolved(Formatted(acc.c[k].v, type, m)))])
             ELSE FormatFrom(items, type, i + 1,
                      [c |-> AfterGet(acc.c, k, now),
                       results |-> Append(acc.results, Pending),
                       lk |-> acc.lk \cup {[fn |-> "imdb", key |-> k, idx |-> i, owned |-> TRUE]}])

\* formatted.filter(Boolean)
RECURSIVE Truthy(_, _)
Truthy(results, i) ==
    IF i > Len(results) THEN <<>> ELSE results[i].v \o Truthy(results, i + 1)

AllSettled(results) == \A i \in 1..Len(results) : results[i].st = "ok"

BeginFormat(hh, items, c) ==
    LET b == FormatFrom(items, hh.type, 1, [c |-> c, results |-> <<>>, lk |-> {}])
    IN  IF AllSettled(b.results)
        THEN Finish([hh EXCEPT !.batch = items], Truthy(b.results, 1), b.c)
        ELSE Step([hh EXCEPT !.pc = "format", !.batch = items, !.results = b.results,
                             !.calls = @ + Cardinality(b.lk)], b.c, b.lk)

(***************************************************************************)
(* Promise.all(movies.map(m => hasHindiAudio(m.id))); in the search path   *)
(* only for items of an Indian original language (gated)                   *)
(***************************************************************************)
RECURSIVE ClassifyFrom(_, _, _, _)
ClassifyFrom(items, gated, i, acc) ==
    IF i > Len(items) THEN acc
    ELSE LET m == items[i]
             k == hindiKey(m.id)
         IN  IF gated /\ m.original_language \notin indianLangs
             THEN ClassifyFrom(items, gated, i + 1,
                      [acc EXCEPT !.results = Append(@, Resolved(<<FALSE>>))])
             ELSE IF Hit(acc.c, k, now)
             THEN ClassifyFrom(items, gated, i + 1,
                      [acc EXCEPT !.results = Append(@, Resolved(<<acc.c[k].v>>))])
             ELSE ClassifyFrom(items, gated, i + 1,
                      [c |-> AfterGet(acc.c, k, now),
                       results |-> Append(acc.results, Pending),
                       lk |-> acc.lk \cup {[fn |-> "hindi", key |-> k, idx |-> i, owned |-> TRUE]}])

\* a variant that reads the results from the far end of the list
KeptReversed(items, results) ==
    FilterSeq(items, [i \in 1..Len(items) |-> results[Len(items) + 1 - i].v = <<TRUE>>], 1)

\* movies.filter((_, idx) => hindiChecks[idx])
Kept(items, results) == FilterSeq(items, [i \in 1..Len(items) |-> results[i].v = <<TRUE>>], 1)

(***************************************************************************)
(* The composite catalog: fan-out over the regional languages              *)
(***************************************************************************)
\* a variant without the slice
MergedUncut(allMovies) == sortByRelease(Dedup(allMovies))

\* uniqueMovies ... sort ... slice(0, 20)
Merged(allMovies) == Slice(sortByRelease(Dedup(allMovies)), PageLen)

\* a variant of the loop that breaks only above the floor (> 25 in place of >= 25)
RegionalLoopAbove(hh, c) ==
    IF hh.lang < Len(regionalLangs) /\ Len(hh.allMovies) <= Floor
    THEN Step([hh EXCEPT !.pc = "query", !.lang = @ + 1, !.batch = <<>>, !.results = <<>>,
                         !.issued = Append(@, Query("discover/movie", regionalLangs[hh.lang + 1], hh.page))],
              c, {})
    ELSE BeginFormat(hh, Merged(hh.allMovies), c)

\* for (const lang of regionalLangs) { if (allMovies.length >= 25) break; await axios.get(...) }
\* hh.lang regional languages have been handled
RegionalLoop(hh, c) ==
    IF hh.lang < Len(regionalLangs) /\ Len(hh.allMovies) < Floor
    THEN Step([hh EXCEPT !.pc = "query", !.lang = @ + 1, !.batch = <<>>, !.results = <<>>,
                         !.issued = Append(@, Query("discover/movie", regionalLangs[hh.lang + 1], hh.page))],
              c, {})
    ELSE BeginFormat(hh, Merged(hh.allMovies), c)

\* a variant that goes on with the regional languages in the search path too
AfterClassifyFanOut(hh, items, results, c) ==
    RegionalLoop([hh EXCEPT !.allMovies = @ \o Kept(items, results)], c)

\* the regional answer is classified, the qualifying items are appended
AfterClassify(hh, items, results, c) ==
    IF hh.search # ""
    THEN BeginFormat(hh, Kept(items, results), c)
    ELSE RegionalLoop([hh EXCEPT !.allMovies = @ \o Kept(items, results)], c)

BeginClassify(hh, items, gated, c) ==
    LET b == ClassifyFrom(items, gated, 1, [c |-> c, results |-> <<>>, lk |-> {}])
    IN  IF AllSettled(b.results)
        THEN AfterClassify(hh, items, b.results, b.c)
        ELSE Step([hh EXCEPT !.pc = "classify", !.batch = items, !.results = b.results,
                             !.calls = @ + Cardinality(b.lk)], b.c, b.lk)

\* filter(m => m.original_language === 'en')
RECURSIVE OnlyEnglish(_)
OnlyEnglish(s) ==
    IF s = <<>> THEN <<>>
    ELSE (IF Head(s).original_language = "en" THEN <<Head(s)>> ELSE <<>>) \o OnlyEnglish(Tail(s))

(***************************************************************************)
(* Actions                                                                 *)
(***************************************************************************)
\* a run has the clients of one kind, catalog and search term
Scopes == [types : {{"movie"}, {"series"}}, id : CatalogIds, search : Searches, maxKeys : {MaxKeys},
           wide : {FALSE}]

Init ==
    /\ cache = <<>>
    /\ now = 0
    /\ ticks = 0
    /\ h = Idle
    /\ lookups = {}
    /\ scope \in Scopes

\* calls left over from a request that has ended go on on their own
Orphaned(lk) == {[l EXCEPT !.owned = FALSE] : l \in lk}

Apply(s, rest) ==
    /\ h' = s.h
    /\ cache' = s.c
    /\ lookups' = IF s.h.pc = "done" THEN Orphaned(rest \cup s.lk) ELSE rest \cup s.lk

\* a variant in which a cached list runs through the end of the handler like a fetched one
BeginLearnOnHit(type, id, search, skip) ==
    LET pageSize == pageSizeOf(cache, id, search, now)
        page == upstreamPage(skip, pageSize)
        cacheKey == pageKey(id, search, page)
        c == AfterGet(AfterGet(cache, pageSizeKey(id, search), now), cacheKey, now)
        hh == [Idle EXCEPT !.type = type, !.id = id, !.search = search, !.skip = skip,
                           !.pageSize = pageSize, !.page = page]
        ask(ep, lang) == Step([hh EXCEPT !.pc = "query", !.issued = <<Query(ep, lang, page)>>], c, {})
    IN  IF Hit(cache, cacheKey, now)
        THEN Finish([hh EXCEPT !.fromCache = TRUE], cache[cacheKey].v, c)
        ELSE IF search # ""
        THEN (IF type = "movie" THEN ask("search/movie", "") ELSE ask("search/tv", ""))
        ELSE IF type = "movie" /\ id = "hollywood_latest" THEN ask("discover/movie", "en")
        ELSE IF type = "movie" /\ id = "indian_latest" THEN ask("discover/movie", "hi")
        ELSE IF type = "series" /\ id = "hollywood_series_latest" THEN ask("discover/tv", "en")
        ELSE Finish(hh, <<>>, c)

\* the handler up to its first await: page-size guess, page, page-list cache, first query
Begin(type, id, search, skip) ==
    LET pageSize == pageSizeOf(cache, id, search, now)
        page == upstreamPage(skip, pageSize)
        cacheKey == pageKey(id, search, page)
        c == AfterGet(AfterGet(cache, pageSizeKey(id, search), now), cacheKey, now)
        hh == [Idle EXCEPT !.type = type, !.id = id, !.search = search, !.skip = skip,
                           !.pageSize = pageSize, !.page = page]
        ask(ep, lang) == Step([hh EXCEPT !.pc = "query", !.issued = <<Query(ep, lang, page)>>], c, {})
    IN  IF Hit(cache, cacheKey, now)
        THEN Step([hh EXCEPT !.pc = "done", !.metas = cache[cacheKey].v, !.fromCache = TRUE], c, {})
        ELSE IF search # ""
        THEN (IF type = "movie" THEN ask("search/movie", "") ELSE ask("search/tv", ""))
        ELSE IF type = "movie" /\ id = "hollywood_latest" THEN ask("discover/movie", "en")
        ELSE IF type = "movie" /\ id = "indian_latest" THEN ask("discover/movie", "hi")
        ELSE IF type = "series" /\ id = "hollywood_series_latest" THEN ask("discover/tv", "en")
        ELSE Finish(hh, <<>>, c)

CatalogRequest(type, id, search, skip) ==
    /\ h.pc \in {"idle", "done"}
    /\ type \in scope.types /\ id = scope.id /\ search = scope.search
    /\ Apply(Begin(type, id, search, skip), lookups)
    /\ UNCHANGED <<now, ticks, scope>>

\* the list query throws (timeout, network, HTTP error)
QueryFails ==
    /\ h.pc = "query"
    /\ Apply(Caught(h, UpstreamError, cache), lookups)
    /\ UNCHANGED <<now, ticks, scope>>

\* what the upstream may answer to the query the handler waits for
AnswersTo(hh) ==
    IF hh.search = "" /\ hh.id = "indian_latest"
    THEN (IF hh.lang # 0 THEN RegionalLists
          ELSE IF scope.wide THEN PrimaryLists \cup WideLists ELSE PrimaryLists)
    ELSE ShortLists

\* response.data.results || [] of the list query, and the handler up to its next await
Answered(hh, results, c) ==
    IF hh.search # ""
    THEN IF hh.type = "movie"
         THEN IF hh.id = "indian_latest" THEN BeginClassify(hh, results, TRUE, c)
              ELSE IF hh.id = "hollywood_latest" THEN BeginFormat(hh, OnlyEnglish(results), c)
              ELSE BeginFormat(hh, results, c)
         ELSE IF hh.id = "hollywood_series_latest" THEN BeginFormat(hh, OnlyEnglish(results), c)
              ELSE BeginFormat(hh, results, c)
    ELSE IF hh.id = "indian_latest"
         THEN IF hh.lang = 0 THEN RegionalLoop([hh EXCEPT !.allMovies = results], c)
              ELSE BeginClassify(hh, results, FALSE, c)
         ELSE BeginFormat(hh, results, c)

QueryAnswers(results) ==
    /\ h.pc = "query"
    /\ results \in AnswersTo(h)
    /\ Apply(Answered(h, results, cache), lookups)
    /\ UNCHANGED <<now, ticks, scope>>

\* a call of the running batch has settled: the handler goes on once all have
Settle(hh, idx, v, c) ==
    LET results == [hh.results EXCEPT ![idx] = Resolved(v)]
        h1 == [hh EXCEPT !.results = results]
    IN  IF ~AllSettled(results) THEN Step(h1, c, {})
        ELSE IF hh.pc = "classify" THEN AfterClassify(h1, hh.batch, results, c)
        ELSE Finish(h1, Truthy(results, 1), c)

\* getIMDBId / hasHindiAudio after its axios call: cache.set(cacheKey, v, ttl) and return v.
\* With the cache full, set throws in the try block and again in the catch block, and the
\* call rejects: Promise.all rejects and the handler's catch returns.
Completes(l, v, result, ttl) ==
    LET rest == lookups \ {l}
    IN  IF Full(cache)
        THEN IF l.owned THEN Apply(Caught(h, ECACHEFULL, cache), rest)
             ELSE /\ lookups' = rest
                  /\ UNCHANGED <<h, cache>>
        ELSE LET c == AfterSet(cache, l.key, v, ttl, now)
             IN  IF l.owned THEN Apply(Settle(h, l.idx, result, c), rest)
                 ELSE /\ lookups' = rest
                      /\ cache' = c
                      /\ UNCHANGED h

\* getIMDBId, the external_ids call answers: imdb_id || null, kept for a day
ImdbAnswers(l, imdbId) ==
    /\ l \in lookups /\ l.fn = "imdb"
    /\ imdbId \in {TT(l.key.n), NULL}
    /\ Completes(l, imdbId, Formatted(imdbId, l.key.a, IF l.owned THEN h.batch[l.idx] ELSE PadItem), LongTTL)
    /\ UNCHANGED <<now, ticks, scope>>

\* getIMDBId, the external_ids call throws: null, kept for an hour
ImdbFails(l) ==
    /\ l \in lookups /\ l.fn = "imdb"
    /\ Completes(l, NULL, <<>>, ShortTTL)
    /\ UNCHANGED <<now, ticks, scope>>

Details == [hi : BOOLEAN, trans : BOOLEAN, inRelease : BOOLEAN]

\* hasHindiAudio, the detail call answers: true for a day, false for an hour
HindiAnswers(l, d) ==
    /\ l \in lookups /\ l.fn = "hindi"
    /\ d \in Details
    /\ Completes(l, Qualifies(d), <<Qualifies(d)>>, IF Qualifies(d) THEN LongTTL ELSE ShortTTL)
    /\ UNCHANGED <<now, ticks, scope>>

\* a variant that keeps the false of a failed call for a day
HindiFailsLong(l) ==
    /\ l \in lookups /\ l.fn = "hindi"
    /\ Completes(l, FALSE, <<FALSE>>, LongTTL)
    /\ UNCHANGED <<now, ticks, scope>>

\* hasHindiAudio, the detail call throws: false, kept for an hour
HindiFails(l) ==
    /\ l \in lookups /\ l.fn = "hindi"
    /\ Completes(l, FALSE, <<FALSE>>, ShortTTL)
    /\ UNCHANGED <<now, ticks, scope>>

\* time passes
TickSteps == {stdTTL + 1, LongTTL + 1}

Tick(d) ==
    /\ ticks < MaxTicks
    /\ now' = now + d
    /\ ticks' = ticks + 1
    /\ UNCHANGED <<cache, h, lookups, scope>>

\* the periodic sweep of node-cache (checkperiod) deletes the expired entries
CheckData ==
    /\ \E k \in DOMAIN cache : Expired(cache[k], now)
    /\ cache' = [k \in {x \in DOMAIN cache : ~Expired(cache[x], now)} |-> cache[k]]
    /\ UNCHANGED <<now, ticks, h, lookups, scope>>

Next ==
    \/ \E type \in Types, id \in CatalogIds, search \in Searches, skip \in Skips :
          CatalogRequest(type, id, search, skip)
    \/ QueryFails
    \/ \E results \in PrimaryLists \cup RegionalLists : QueryAnswers(results)
    \/ \E l \in lookups, imdbId \in {TT(n) : n \in ItemIds} \cup {NULL} : ImdbAnswers(l, imdbId)
    \/ \E l \in lookups : ImdbFails(l)
    \/ \E l \in lookups, d \in Details : HindiAnswers(l, d)
    \/ \E l \in lookups : HindiFails(l)
    \/ \E d \in TickSteps : Tick(d)
    \/ CheckData

Spec == Init /\ [][Next]_vars

\* the state after construction, for given clients and a given maxKeys
Start(s) ==
    /\ cache = <<>>
    /\ now = 0
    /\ ticks = 0
    /\ h = Idle
    /\ lookups = {}
    /\ scope = s

\* Clients of both kinds search the Indian catalog for the same term, within a time
\* too short for any entry to expire.
InitKinds == Start([types |-> Types, id |-> "indian_latest", search |-> "q", maxKeys |-> MaxKeys,
                    wide |-> FALSE])

NextKinds ==
    \/ \E type \in Types, skip \in Skips : CatalogRequest(type, scope.id, scope.search, skip)
    \/ QueryFails
    \/ \E results \in ShortLists : QueryAnswers(results)
    \/ \E l \in lookups, imdbId \in {TT(n) : n \in ItemIds} \cup {NULL} : ImdbAnswers(l, imdbId)
    \/ \E l \in lookups : ImdbFails(l)
    \/ \E l \in lookups, d \in Details : HindiAnswers(l, d)
    \/ \E l \in lookups : HindiFails(l)

SpecKinds == InitKinds /\ [][NextKinds]_vars

\* Movie clients search the Indian catalog, and the cache has room for the entries of a
\* first page (classification, identifier, page list, page size) and one more.
InitRoom ==
    Start([types |-> {"movie"}, id |-> "indian_latest", search |-> "q", maxKeys |-> MaxKeys + 2,
           wide |-> FALSE])

SpecRoom == InitRoom /\ [][Next]_vars

\* Movie clients browse the Indian catalog, whose primary query may find more than 20
\* different items, within a time too short for any entry to expire.
InitMerge ==
    Start([types |-> {"movie"}, id |-> "indian_latest", search |-> "", maxKeys |-> MaxKeys + 2,
           wide |-> TRUE])

NextMerge ==
    \/ \E skip \in Skips : CatalogRequest("movie", scope.id, scope.search, skip)
    \/ QueryFails
    \/ \E results \in PrimaryLists \cup WideLists \cup RegionalLists : QueryAnswers(results)
    \/ \E l \in lookups, imdbId \in {TT(n) : n \in ItemIds} \cup {NULL} : ImdbAnswers(l, imdbId)
    \/ \E l \in lookups : ImdbFails(l)
    \/ \E l \in lookups, d \in Details : HindiAnswers(l, d)
    \/ \E l \in lookups : HindiFails(l)

SpecMerge == InitMerge /\ [][NextMerge]_vars

\* A movie client pages through the Hollywood catalog: it asks with offset 0 and then,
\* each time it has received items, with the number of items it has received so far;
\* it may start over at any time.  No entry expires meanwhile.
InitPaging ==
    Start([types |-> {"movie"}, id |-> "hollywood_latest", search |-> "", maxKeys |-> MaxKeys + 2,
           wide |-> FALSE])

FirstPage == CatalogRequest("movie", scope.id, scope.search, 0)

NextPage ==
    /\ h.pc = "done" /\ Len(h.metas) > 0
    /\ h.skip + Len(h.metas) <= MaxOffset
    /\ CatalogRequest(h.type, h.id, h.search, h.skip + Len(h.metas))

NextPaging ==
    \/ FirstPage
    \/ NextPage
    \/ QueryFails
    \/ \E results \in ShortLists : QueryAnswers(results)
    \/ \E l \in lookups, imdbId \in {TT(n) : n \in ItemIds} \cup {NULL} : ImdbAnswers(l, imdbId)
    \/ \E l \in lookups : ImdbFails(l)

SpecPaging == InitPaging /\ [][NextPaging]_vars

(***************************************************************************)
(* Properties                                                              *)
(***************************************************************************)
\* a catalog request arrives in this step (h' is its record)
Arrives ==
    /\ h.pc \in {"idle", "done"} /\ h'.pc # "idle"
    /\ CatalogRequest(h'.type, h'.id, h'.search, h'.skip)

\* the learned size stored for the signature and not expired, or 20
LearnedOrDefault(id, search) ==
    LET k == [kind |-> "ps", a |-> id, b |-> search, n |-> 0]
    IN  IF k \in DOMAIN cache /\ cache[k].t >= now THEN cache[k].v ELSE 20

\* C1: every list query of a request asks for page floor(skip / pageSize) + 1, where
\* pageSize is the live learned size cached for the signature when the request arrives,
\* or 20 when there is none.
C1_PageQueried ==
    [][ /\ Arrives => h'.pageSize = LearnedOrDefault(h'.id, h'.search)
        /\ \A i \in 1..Len(h'.issued) :
              /\ h'.issued[i].page * h'.pageSize <= h'.skip + h'.pageSize
              /\ h'.issued[i].page * h'.pageSize > h'.skip ]_vars

\* a request with a learned size of 2 and offset 2 waits for page 2
C1_Witness == h.pc = "query" /\ h.pageSize = 2 /\ h.skip = 2 /\ h.issued[1].page = 2

\* offsets the translation is probed with
Offsets == Skips \cup {DefaultPageSize - 1, DefaultPageSize, 2 * DefaultPageSize}

\* C3: under the page size in force for the signature, a smaller offset never maps to
\* a later upstream page than a larger one.
C3_Monotonic ==
    LET p == pageSizeOf(cache, scope.id, scope.search, now)
    IN  p >= 1 /\ \A o1 \in Offsets, o2 \in Offsets :
                     o1 < o2 => upstreamPage(o1, p) <= upstreamPage(o2, p)

\* a learned size of 2 is in force, and offsets 1 and 2 fall on different pages
C3_Witness ==
    /\ pageSizeOf(cache, scope.id, scope.search, now) = 2
    /\ upstreamPage(1, 2) < upstreamPage(2, 2)

\* C4: a request with offset 0 computes upstream page 1, whatever the page size.
C4_FirstPage == (h.pc # "idle" /\ h.skip = 0) => (h.page = 1 /\ h.pageSize >= 1)

\* a request with offset 0 under a learned size
C4_Witness == h.pc = "query" /\ h.skip = 0 /\ h.pageSize # DefaultPageSize /\ h.page = 1

\* the request is for the composite catalog (indian_latest, no search term)
Composite(hh) == hh.type = "movie" /\ hh.id = "indian_latest" /\ hh.search = ""

\* the composite request has merged its accumulator: batch is the list it formats
MergedState == Composite(h) /\ (h.pc = "format" \/ (h.pc = "done" /\ h.error = "" /\ ~h.fromCache))

FirstIndex(s, id) == CHOOSE i \in 1..Len(s) : s[i].id = id /\ \A j \in 1..(i - 1) : s[j].id # id

\* C5: deduplicating the accumulated list keeps, for each source id in it, exactly one
\* item, the first one with that id, and the kept items stand in the order of those
\* first occurrences; the list the composite path goes on with holds no id twice.
C5_Dedup ==
    LET a == h.allMovies
        u == Dedup(a)
    IN  /\ \A i \in 1..Len(a) : Cardinality({j \in 1..Len(u) : u[j].id = a[i].id}) = 1
        /\ \A j \in 1..Len(u) :
              /\ \E i \in 1..Len(a) : a[i].id = u[j].id
              /\ u[j] = a[FirstIndex(a, u[j].id)]
        /\ \A j, k \in 1..Len(u) : j < k => FirstIndex(a, u[j].id) < FirstIndex(a, u[k].id)
        /\ MergedState =>
              /\ \A i, j \in 1..Len(h.batch) : i # j => h.batch[i].id # h.batch[j].id
              /\ \A i \in 1..Len(h.batch) : \E j \in 1..Len(u) : h.batch[i] = u[j]
              /\ Len(u) <= PageLen => Len(h.batch) = Len(u)

\* an accumulator with a repeated id has been merged, and items were returned
C5_Witness ==
    /\ MergedState /\ h.pc = "done" /\ Len(h.metas) > 0
    /\ \E i, j \in 1..Len(h.allMovies) :
          i < j /\ h.allMovies[i].id = h.allMovies[j].id /\ h.allMovies[i] # h.allMovies[j]

\* a release date as a number, 0 for an empty or absent one
DateKey(d) == IF d = NoDate \/ d = <<>> THEN 0 ELSE d[1] * 10000 + d[2] * 100 + d[3]

\* C6: the list the composite path formats is in non-increasing release-date order,
\* and every item without a release date (empty or absent) stands behind every dated one.
C6_Sorted ==
    MergedState =>
        \A i, j \in 1..Len(h.batch) :
            i < j => /\ DateKey(h.batch[i].release_date) >= DateKey(h.batch[j].release_date)
                     /\ ~(DateKey(h.batch[i].release_date) = 0 /\ DateKey(h.batch[j].release_date) > 0)

\* an undated item was accumulated ahead of a dated one, and both were merged
C6_Witness ==
    /\ MergedState /\ Len(h.batch) >= 2
    /\ \E i, j \in 1..Len(h.allMovies) :
          /\ i < j
          /\ DateKey(h.allMovies[i].release_date) = 0
          /\ DateKey(h.allMovies[j].release_date) > 0
          /\ h.allMovies[i].id # h.allMovies[j].id

\* C7: the composite path issues the primary query and then the regional queries in the
\* order ta, te, ml, kn, mr, one at a time, and a regional query is only in flight while
\* fewer than 25 items are accumulated; a request that ends without an error has either
\* asked all five languages or reached 25.
C7_FanOut ==
    Composite(h) /\ h.pc # "idle" /\ ~h.fromCache =>
        /\ Len(h.issued) = h.lang + 1
        /\ h.issued[1] = [ep |-> "discover/movie", lang |-> "hi", page |-> h.page]
        /\ \A i \in 2..Len(h.issued) :
              h.issued[i] = [ep |-> "discover/movie",
                             lang |-> <<"ta", "te", "ml", "kn", "mr">>[i - 1], page |-> h.page]
        /\ (h.pc \in {"query", "classify"} /\ h.lang >= 1) => Len(h.allMovies) < 25
        /\ (h.pc = "format" \/ (h.pc = "done" /\ h.error = "")) =>
              (Len(h.issued) = 6 \/ Len(h.allMovies) >= 25)

\* the fan-out stopped at 25 items with regional languages left unasked
C7_Witness ==
    /\ Composite(h) /\ h.pc = "done" /\ h.error = "" /\ ~h.fromCache
    /\ Len(h.issued) \in 2..5
    /\ Len(h.allMovies) >= 25

\* the page lists in the cache
PageLists == {cache[k].v : k \in {x \in DOMAIN cache : x.kind = "page"}}

\* C8: no list returned to the client and no cached page list holds an item without a
\* poster reference or without a resolved external id.
C8_Representable ==
    \A list \in PageLists \cup {h.metas} :
        \A i \in 1..Len(list) : list[i].poster = TRUE /\ list[i].id # "null"

\* a request returned items and dropped a poster-less or unresolved one
C8_Witness ==
    /\ h.pc = "done" /\ ~h.fromCache /\ h.error = ""
    /\ Len(h.metas) >= 1
    /\ Len(h.metas) < Len(h.batch)
    /\ PageLists # {}

\* C10: a request whose list query failed (primary, regional or search) has ended with
\* an empty list, whatever it had accumulated, and has cached no page list.
C10_FailEmpty ==
    h.error = "Request failed" =>
        /\ h.pc = "done"
        /\ h.metas = <<>>
        /\ [kind |-> "page", a |-> h.id, b |-> h.search, n |-> h.page] \notin DOMAIN cache

\* a regional query failed after items had been accumulated
C10_Witness ==
    /\ h.error = "Request failed" /\ h.pc = "done"
    /\ Len(h.issued) >= 2 /\ Len(h.allMovies) > 0

\* C2: when a request with offset 0 has returned n > 0 items, the next request for the
\* same signature with an offset k * n (k >= 1) computes upstream page k + 1; no time
\* has passed, so no learned size has expired.
C2_LearnedPaging ==
    [][ ( /\ Arrives
          /\ ticks = 0
          /\ h.pc = "done" /\ h.skip = 0 /\ Len(h.metas) > 0
          /\ h'.type = h.type /\ h'.id = h.id /\ h'.search = h.search
          /\ h'.skip > 0 /\ h'.skip % Len(h.metas) = 0 )
        => h'.page = (h'.skip \div Len(h.metas)) + 1 ]_vars

\* a hasHindiAudio call is made for every item of the answer the handler classifies
Classifies(hh) ==
    \/ hh.type = "movie" /\ hh.id = "indian_latest" /\ hh.search # ""
    \/ Composite(hh) /\ hh.lang >= 1

Called(hh, m) == hh.search = "" \/ m.original_language \in indianLangs

\* C9: a hasHindiAudio call whose detail fetch fails stores false under the short TTL of
\* 3600 s; a call for an id whose stored false is not older than that returns false
\* and starts no upstream call; a call for an id whose entry has expired starts one.
C9_NegativeCaching ==
    [][ /\ \A l \in lookups :
              HindiFails(l) =>
                  /\ l.key \in DOMAIN cache'
                  /\ cache'[l.key] = [v |-> FALSE, t |-> now + 3600]
        /\ \A results \in AnswersTo(h) :
              (Classifies(h) /\ QueryAnswers(results)) =>
                  \A i \in 1..Len(results) :
                      LET k == [kind |-> "hindi", a |-> "", b |-> "", n |-> results[i].id]
                          started == \E l \in lookups' : l.fn = "hindi" /\ l.key = k /\ l.idx = i
                      IN  (Called(h, results[i]) /\ k \in DOMAIN cache) =>
                              /\ (cache[k].v = FALSE /\ cache[k].t >= now) =>
                                    /\ ~started
                                    /\ h'.pc = "classify" => h'.results[i] = Resolved(<<FALSE>>)
                              /\ cache[k].t < now => started ]_vars

\* C11: whichever upstream calls fail and whichever cache writes throw, the handler never
\* rejects: it is always at one of its awaits or has returned; what it has returned is a
\* list of well-formed items, the empty list whenever an error was caught; and while it
\* waits for a batch, a call of that batch is in flight, so that it is never stuck.
C11_NeverThrows ==
    /\ h.pc \in {"idle", "query", "classify", "format", "done"}
    /\ h.pc = "done" =>
          \A i \in 1..Len(h.metas) :
              /\ h.metas[i].id \in {"tt1", "tt2", "tt3"}
              /\ h.metas[i].type \in {"movie", "series"}
              /\ h.metas[i].poster = TRUE
    /\ h.error # "" => (h.pc = "done" /\ h.metas = <<>>)
    /\ h.pc \in {"classify", "format"} =>
          \E l \in lookups : l.owned /\ h.results[l.idx].st = "pending"

\* a cache write threw in a request that had asked the upstream, and the request returned
C11_Witness ==
    /\ h.pc = "done" /\ h.error = "Cache max keys amount exceeded"
    /\ Len(h.issued) >= 1 /\ h.metas = <<>>
\* the entries of one kind that this step has written: new ones and changed ones
Written(kind) ==
    {k \in DOMAIN cache' : k.kind = kind /\ (k \notin DOMAIN cache \/ cache'[k] # cache[k])}

\* C12: every entry getIMDBId writes holds either the unresolved sentinel null under the
\* short TTL of 3600 s (the lookup failed, or it answered without an identifier) or a
\* resolved identifier under the long TTL of 86400 s.
C12_ResolverTTLs ==
    [][ \A k \in Written("imdb") :
            cache'[k].t = now + (IF cache'[k].v = "null" THEN 3600 ELSE 86400) ]_vars

\* C13: every entry hasHindiAudio writes holds true under the long TTL of 86400 s or
\* false under the short TTL of 3600 s, and every result a call of a batch hands to the
\* handler is the value of the entry the call has just written under that TTL.
C13_ClassifierTTLs ==
    [][ /\ \A k \in Written("hindi") :
              cache'[k].t = now + (IF cache'[k].v THEN 86400 ELSE 3600)
        /\ (h.pc = "classify" /\ h'.pc = "classify") =>
              \A i \in 1..Len(h.results) :
                  (h.results[i].st = "pending" /\ h'.results[i].st = "ok") =>
                      LET k == [kind |-> "hindi", a |-> "", b |-> "", n |-> h.batch[i].id]
                          v == h'.results[i].v[1]
                      IN  /\ k \in DOMAIN cache'
                          /\ cache'[k] = [v |-> v, t |-> now + (IF v THEN 86400 ELSE 3600)] ]_vars

\* a call of a batch has returned true, which is cached for a day, and another call of
\* the batch is still in flight
C13_Witness ==
    /\ h.pc = "classify"
    /\ \E i \in 1..Len(h.results) :
          /\ h.results[i] = Resolved(<<TRUE>>)
          /\ hindiKey(h.batch[i].id) \in DOMAIN cache
          /\ cache[hindiKey(h.batch[i].id)] = [v |-> TRUE, t |-> now + 86400]

\* C14: a page-size entry is written only in the step in which a request with offset 0
\* returns a non-empty list it has fetched, under the key of that request's catalog and
\* search term and with the length of that list as its value.
C14_LearnOnlyAtZero ==
    [][ \A k \in Written("ps") :
            /\ h'.pc = "done" /\ ~h'.fromCache /\ h'.error = ""
            /\ h'.skip = 0
            /\ Len(h'.metas) > 0
            /\ k = [kind |-> "ps", a |-> h'.id, b |-> h'.search, n |-> 0]
            /\ cache'[k].v = Len(h'.metas) ]_vars

\* a request with offset 0 has returned two items and the learned size is 2
C14_Witness ==
    /\ h.pc = "done" /\ h.learned /\ h.skip = 0 /\ Len(h.metas) = 2
    /\ pageSizeKey(h.id, h.search) \in DOMAIN cache
    /\ cache[pageSizeKey(h.id, h.search)] = [v |-> 2, t |-> now + 86400]

\* C15: a request that arrives while the page-list entry of its catalog, search term and
\* upstream page is stored and not expired returns the list of that entry at once: it
\* issues no list query and starts no getIMDBId or hasHindiAudio call.
C15_CacheHit ==
    [][ LET k == [kind |-> "page", a |-> h'.id, b |-> h'.search, n |-> h'.page]
        IN  (Arrives /\ k \in DOMAIN cache /\ cache[k].t >= now) =>
                /\ h'.pc = "done" /\ h'.error = ""
                /\ h'.metas = cache[k].v
                /\ h'.issued = <<>> /\ h'.calls = 0
                /\ \A l \in lookups' : ~l.owned
                /\ Cardinality(lookups') <= Cardinality(lookups) ]_vars

\* a request has been answered from the page-list cache with the two items stored there
C15_Witness ==
    /\ h.pc = "done" /\ h.fromCache /\ h.issued = <<>> /\ h.calls = 0
    /\ Len(h.metas) = 2
    /\ pageKey(h.id, h.search, h.page) \in DOMAIN cache
    /\ cache[pageKey(h.id, h.search, h.page)].v = h.metas
C17_PresentNotAbsent ==
    [][ /\ \A l \in lookups' :
              (l.owned /\ l \notin lookups) => ~(l.key \in DOMAIN cache /\ cache[l.key].t >= now)
        /\ (h'.pc = "format" /\ h.pc # "format") =>
              \A i \in 1..Len(h'.batch) :
                  LET k == [kind |-> "imdb", a |-> h'.type, b |-> "", n |-> h'.batch[i].id]
                  IN  (k \in DOMAIN cache /\ cache[k].t >= now /\ cache[k].v = "null") =>
                          /\ h'.results[i] = Resolved(<<>>)
                          /\ ~\E l \in lookups' : l.owned /\ l.idx = i
        /\ (h'.pc = "classify" /\ h.pc # "classify") =>
              \A i \in 1..Len(h'.batch) :
                  LET k == [kind |-> "hindi", a |-> "", b |-> "", n |-> h'.batch[i].id]
                  IN  (k \in DOMAIN cache /\ cache[k].t >= now /\ Called(h', h'.batch[i])) =>
                          (cache[k].v = FALSE =>
                              /\ h'.results[i] = Resolved(<<FALSE>>)
                              /\ ~\E l \in lookups' : l.owned /\ l.idx = i) ]_vars

\* a request is formatting two items and has started one call: the item whose key holds a
\* null stored earlier is settled without an item, the other one waits for its call
C17_Witness ==
    /\ h.pc = "format" /\ Len(h.batch) = 2 /\ h.calls = 1
    /\ \E i \in 1..2 :
          LET k == imdbKey(h.type, h.batch[i].id)
          IN  /\ h.batch[i].poster_path
              /\ h.results[i] = Resolved(<<>>)
              /\ k \in DOMAIN cache /\ cache[k].v = NULL
              /\ cache[k].t >= now /\ cache[k].t < now + ShortTTL
              /\ h.results[3 - i] = Pending

\* C18: a request with a search term, for any catalog and kind, issues at most one list
\* query, exactly one unless it is served from the page-list cache; that query is the
\* text search of its kind for the computed page, never a discover query.
C18_SearchSingleQuery ==
    (h.pc # "idle" /\ h.search # "") =>
        /\ Len(h.issued) <= 1
        /\ ~h.fromCache => Len(h.issued) = 1
        /\ \A i \in 1..Len(h.issued) :
              h.issued[i] = [ep |-> IF h.type = "movie" THEN "search/movie" ELSE "search/tv",
                             lang |-> "", page |-> h.page]

\* a search in the Indian catalog has classified and formatted its answer and returned items
C18_Witness ==
    /\ h.search # "" /\ h.id = "indian_latest" /\ h.type = "movie"
    /\ h.pc = "done" /\ ~h.fromCache /\ h.error = ""
    /\ Len(h.metas) >= 1
    /\ Len(h.issued) = 1
\* C19: the items of a cached page list have the kind of the request that stored it, so
\* a request that is served from the cache with an item of another kind has read an
\* entry that a request of another signature wrote; page-list entries are scoped by
\* kind, catalog and search term exactly when this never happens.
C19_ScopedByKind ==
    h.fromCache => \A i \in 1..Len(h.metas) : h.metas[i].type = h.type

Returns == h.pc \in {"query", "classify", "format"} /\ h'.pc = "done"

C21_CacheBestEffort ==
    [][ \A l \in lookups : \A imdbId \in {"tt1", "tt2", "tt3"} :
            (l.owned /\ h.pc = "format" /\ ImdbAnswers(l, imdbId)) =>
                LET m == h.batch[l.idx]
                    item == [id |-> imdbId, type |-> h.type, poster |-> m.poster_path,
                             language |-> m.original_language,
                             releaseInfo |-> releaseInfo(m.release_date)]
                    results == [h.results EXCEPT ![l.idx] = [st |-> "ok", v |-> <<item>>]]
                IN  (\A i \in 1..Len(results) : results[i].st = "ok") =>
                        (h'.pc = "done" /\ h'.metas = Truthy(results, 1)) ]_vars

\* a getIMDBId or hasHindiAudio call returns from its upstream call in this step
Returned(l) ==
    \/ ImdbFails(l)
    \/ HindiFails(l)
    \/ \E imdbId \in {"tt1", "tt2", "tt3", "null"} : ImdbAnswers(l, imdbId)
    \/ \E d \in Details : HindiAnswers(l, d)

\* C22: the cache never holds more entries than its maxKeys, and the write of every
\* getIMDBId or hasHindiAudio call that returns from upstream succeeds, also when the
\* cache is full: afterwards the key holds a fresh entry.
C22_Eviction ==
    [][ /\ Cardinality(DOMAIN cache') <= scope.maxKeys
        /\ \A l \in lookups :
              Returned(l) => (l.key \in DOMAIN cache' /\ cache'[l.key].t >= now + 3600) ]_vars
\* the j-th smallest of a set of indexes
Nth(T, j) == CHOOSE i \in T : Cardinality({x \in T : x < i}) = j - 1

\* C23: when the last hasHindiAudio call of a batch has returned, the list the handler
\* goes on with is the input list cut down to the positions whose result is true, in
\* input order; the other results are those of the calls that returned before, in
\* whatever order they did.
C23_OrderPreserved ==
    [][ (h.pc = "classify" /\ h'.pc # "classify" /\ h'.error = "") =>
            LET last == CHOOSE i \in 1..Len(h.results) : h.results[i].st = "pending"
                v == cache'[[kind |-> "hindi", a |-> "", b |-> "", n |-> h.batch[last].id]].v
                T == {i \in 1..Len(h.batch) : IF i = last THEN v ELSE h.results[i].v = <<TRUE>>}
                kept == [j \in 1..Cardinality(T) |-> h.batch[Nth(T, j)]]
            IN  IF h.search = ""
                THEN h'.allMovies = h.allMovies \o kept
                ELSE h'.batch = kept ]_vars

\* the call for the second of two different items has returned true before the call for
\* the first one has returned
C23_Witness ==
    /\ h.pc = "classify" /\ Len(h.batch) = 2
    /\ h.batch[1] # h.batch[2]
    /\ h.results[1] = Pending
    /\ h.results[2] = Resolved(<<TRUE>>)

\* C24: the list the composite path formats is the deduplicated list when that has at
\* most 20 items and else 20 items of it, none of them older than an item left out; the
\* list it returns has at most 20 items, each the formatted form of an item of those 20,
\* in their order.
C24_Truncated ==
    MergedState =>
        LET u == Dedup(h.allMovies)
            In(m) == \E i \in 1..Len(h.batch) : h.batch[i] = m
            At(j) == CHOOSE i \in 1..Len(h.batch) :
                         h.batch[i].poster_path /\ TT(h.batch[i].id) = h.metas[j].id
        IN  /\ Len(h.batch) = (IF Len(u) < 20 THEN Len(u) ELSE 20)
            /\ \A j \in 1..Len(u) :
                  ~In(u[j]) => \A i \in 1..Len(h.batch) :
                                   DateKey(h.batch[i].release_date) >= DateKey(u[j].release_date)
            /\ h.pc = "done" =>
                  /\ Len(h.metas) <= 20
                  /\ \A j \in 1..Len(h.metas) :
                        \E i \in 1..Len(h.batch) :
                            h.batch[i].poster_path /\ TT(h.batch[i].id) = h.metas[j].id
                  /\ \A j, k \in 1..Len(h.metas) : j < k => At(j) < At(k)

\* more than 20 different items were accumulated, 20 were formatted and items returned
C24_Witness ==
    /\ MergedState /\ h.pc = "done"
    /\ Len(Dedup(h.allMovies)) > 20
    /\ Len(h.batch) = 20
    /\ Len(h.metas) >= 1

C26_PagesInOrder ==
    [][ NextPage => (h'.page = h.page + 1
                     /\ \A i \in 1..Len(h'.issued) : h'.issued[i].page = h.page + 1) ]_vars
\* C27: a classifier entry that holds true and has not expired is not replaced by false,
\* whichever hasHindiAudio call returns next.
C27_TrueSticks ==
    [][ \A k \in DOMAIN cache :
            (k.kind = "hindi" /\ cache[k].v = TRUE /\ cache[k].t >= now) =>
                (k \in DOMAIN cache' /\ cache'[k].v = TRUE) ]_vars

\* C28: a step in which a request ends with an empty list leaves the page-list entries
\* and the page-size entry of the request's catalog and search term as they were.
C28_EmptyNotCached ==
    [][ (Returns /\ h'.metas = <<>>) =>
            \A k \in DOMAIN cache \cup DOMAIN cache' :
                (k.kind \in {"page", "ps"} /\ k.a = h.id /\ k.b = h.search) =>
                    (k \in DOMAIN cache /\ k \in DOMAIN cache' /\ cache'[k] = cache[k]) ]_vars
\* C29: a page list is stored only by a request that fetched it, under the catalog and
\* search term of that request and the page the request computed when it arrived; its
\* items are formatted from the answers to the request's list queries, and every list
\* query the request issued, of the kind its search term calls for, asked
\* for that page.
C29_BuiltFromOwnPage ==
    [][ \A k \in Written("page") :
            /\ Returns /\ ~h'.fromCache
            /\ k.a = h.id /\ k.b = h.search /\ k.n = h.page
            /\ \A j \in 1..Len(cache'[k].v) :
                  \E i \in 1..Len(h'.batch) :
                      cache'[k].v[j].id = TT(h'.batch[i].id) /\ cache'[k].v[j].type = h.type
            /\ h'.issued = h.issued /\ Len(h.issued) >= 1
            /\ \A i \in 1..Len(h.issued) :
                  /\ h.issued[i].page = k.n
                  /\ (h.issued[i].ep \in {"search/movie", "search/tv"}) <=> (h.search # "") ]_vars

\* a request for page 2 under a learned size has stored its list after the learned size
\* expired
C29_Witness ==
    /\ h.pc = "done" /\ ~h.fromCache /\ h.error = ""
    /\ h.pageSize # DefaultPageSize /\ h.page = 2
    /\ pageKey(h.id, h.search, 2) \in DOMAIN cache
    /\ cache[pageKey(h.id, h.search, 2)].v = h.metas
    /\ ~Hit(cache, pageSizeKey(h.id, h.search), now)

\* C30: every page-size record holds a positive number, the page size a request works
\* with is positive, and the page it computes, like the page of every probed offset
\* under the size in force, is at least 1.
C30_PositivePageSize ==
    /\ \A k \in DOMAIN cache : k.kind = "ps" => cache[k].v >= 1
    /\ pageSizeOf(cache, scope.id, scope.search, now) >= 1
    /\ \A o \in Offsets : upstreamPage(o, pageSizeOf(cache, scope.id, scope.search, now)) >= 1
    /\ h.pc # "idle" => (h.pageSize >= 1 /\ h.page >= 1)

\* a request with offset 2 under a learned size of 1 works with page 3
C30_Witness ==
    /\ h.pc \in {"query", "format", "classify"}
    /\ h.skip = 2 /\ h.pageSize = 1 /\ h.page = 3
    /\ Hit(cache, pageSizeKey(h.id, h.search), now)
\* C31: a request that is served from the page-list cache stores nothing: no entry
\* appears, no entry changes its value or its lifetime, the only entries that go are
\* expired ones that its own reads found, and it neither learns a page size nor fails
\* on a write, at offset 0 as at any other.
C31_HitWritesNothing ==
    [][ (Arrives /\ h'.fromCache) =>
            /\ \A k \in DOMAIN cache' : k \in DOMAIN cache /\ cache'[k] = cache[k]
            /\ \A k \in DOMAIN cache \ DOMAIN cache' : cache[k].t < now
            /\ ~h'.learned /\ h'.error = ""
            /\ Written("ps") = {} /\ Written("page") = {} ]_vars

\* a request with offset 0 has been served from the cache while no page size is stored
\* for its catalog and search term, and none is stored afterwards
C31_Witness ==
    /\ h.pc = "done" /\ h.fromCache /\ h.error = "" /\ ~h.learned
    /\ h.skip = 0 /\ Len(h.metas) >= 1
    /\ pageSizeKey(h.id, h.search) \notin DOMAIN cache
====
